---- MODULE Spec2Model ----
(***************************************************************************)
(* Flip 7 room server (party/server.ts, party/deck.ts, party/types.ts).    *)
(*                                                                         *)
(* The room holds one GameState object and handles one inbound event at a  *)
(* time (onConnect, onClose, onMessage).  Every handler is one action.     *)
(*                                                                         *)
(* Representation:                                                         *)
(*  - a card is referred to by the number k of its id "card-k"; the card   *)
(*    object itself (type, value) is createDeck[k + 1].  The piles and     *)
(*    the hands hold references to these immutable objects;                *)
(*  - a connection id is a number in 1..NumConns, the empty id "" is 0;    *)
(*  - a player name is a number in 1..NumNames;                            *)
(*  - lastAction (a formatted string) is a tuple of its tag and the values *)
(*    interpolated into it, null is the empty tuple;                       *)
(*  - the variables are the fields of the GameState object (targetScore   *)
(*    never changes and is a constant).  What a handler sends is no state  *)
(*    of the room: every handler is an operator giving the state it leaves *)
(*    and the message it sends (to one connection or to the room);         *)
(*  - the values Math.random() returns inside one shuffle are a tape of   *)
(*    fractions drawn from Randoms.                                        *)
(***************************************************************************)
EXTENDS Integers, Sequences, FiniteSets, TLC

VARIABLES phase, players, currentPlayerIndex, deck, discard, roundNumber,
          hostId, lastAction, winner

vars == <<phase, players, currentPlayerIndex, deck, discard, roundNumber,
          hostId, lastAction, winner>>

----------------------------------------------------------------------------
(* Bounds of the model                                                     *)

NumConns == 2

NumNames == 2

\* rounds are started only while roundNumber is below MaxRound, or is the
\* round LateRound at which the late-game specification begins
MaxRound == 2

LateRound == 25

StartableRounds == (0..(MaxRound - 1)) \cup {LateRound}

Conns == 1..NumConns

Names == 1..NumNames

\* What Math.random() returns during one shuffle: a tape of fractions
\* <<numerator, denominator>> in [0, 1), read one per call, the last one
\* repeated for every further call.
\* The first tape leaves six 12s on top of the pile; the second one a second
\* chance, two 12s, the modifier +4 and more 12s.
Randoms == {<<<<78, 95>>>>,
            <<<<87, 95>>, <<78, 94>>, <<77, 93>>, <<89, 92>>, <<78, 95>>>>}

\* A tape that brings the number cards 0 to 6 to the top of the pile.
Flip7Random == <<<<0, 95>>, <<1, 94>>, <<2, 93>>, <<4, 92>>, <<7, 91>>, <<11, 90>>,
                 <<16, 89>>, <<78, 95>>>>

\* A tape that brings two second chance cards and then 12s to the top.
TwoChancesRandom == <<<<87, 95>>, <<84, 94>>, <<78, 93>>, <<77, 92>>, <<78, 95>>>>

\* What Math.random() returns when drawCard shuffles the discard pile
Reshuffles == Randoms \cup {Flip7Random, TwoChancesRandom}

----------------------------------------------------------------------------
(* Program constants                                                       *)

EmptyId == 0

null == 0

targetScore == 200

MaxNumberValue == 12

ActionCopies == 3

\* six modifiers of six different values
ModifierValuesDistinct == <<2, 4, 6, 8, 10, 12>>

ModifierValues == <<2, 4, 6, 8, 8, 10>>

MultiplierValue == 2

Flip7Count == 7

Flip7Bonus == 15

FlipThreeDraws == 3

----------------------------------------------------------------------------
(* deck.ts                                                                 *)

\* makeCard: the id is the running counter, which createDeck resets to 0,
\* so it equals the number of cards made before this one.
makeCard(type, value, counter) == [id |-> counter, type |-> type, value |-> value]

RECURSIVE PushNumberCopies(_, _, _, _)
PushNumberCopies(cards, n, i, count) ==
  IF i < count
    THEN PushNumberCopies(Append(cards, makeCard("number", n, Len(cards))), n, i + 1, count)
    ELSE cards

RECURSIVE PushNumbers(_, _)
PushNumbers(cards, n) ==
  IF n <= MaxNumberValue
    THEN PushNumbers(PushNumberCopies(cards, n, 0, IF n = 0 THEN 1 ELSE n), n + 1)
    ELSE cards

RECURSIVE PushActions(_, _)
PushActions(cards, i) ==
  IF i < ActionCopies
    THEN LET c1 == Append(cards, makeCard("freeze", 0, Len(cards)))
             c2 == Append(c1, makeCard("flip_three", 0, Len(c1)))
             c3 == Append(c2, makeCard("second_chance", 0, Len(c2)))
         IN PushActions(c3, i + 1)
    ELSE cards

RECURSIVE PushModifiers(_, _)
PushModifiers(cards, k) ==
  IF k <= Len(ModifierValues)
    THEN PushModifiers(Append(cards, makeCard("modifier", ModifierValues[k], Len(cards))), k + 1)
    ELSE cards

createDeck ==
  LET numbers   == PushNumbers(<<>>, 0)
      actions   == PushActions(numbers, 0)
      modifiers == PushModifiers(actions, 1)
  IN Append(modifiers, makeCard("multiplier", MultiplierValue, Len(modifiers)))

DeckSize == Len(createDeck)

\* the card object behind a reference
Card(k) == createDeck[k + 1]

\* the references to the cards of createDeck(), in its order
createDeckRefs == [k \in 1..DeckSize |-> createDeck[k].id]

\* the value of the k-th call of Math.random() in a shuffle that reads tape r
Random(r, k) == IF k < Len(r) THEN r[k] ELSE r[Len(r)]

\* Math.floor(Math.random() * (i + 1)), Math.random() being the fraction x
RandomIndex(x, i) == (x[1] * (i + 1)) \div x[2]

\* Swap writing one of the two elements only
SwapOverwrites(a, i, j) == [a EXCEPT ![i + 1] = a[j + 1]]

Swap(a, i, j) == [a EXCEPT ![i + 1] = a[j + 1], ![j + 1] = a[i + 1]]

\* the loop of shuffleDeck from index i down; it has called Math.random()
\* Len(shuffled) - 1 - i times before
RECURSIVE FisherYates(_, _, _)
FisherYates(shuffled, i, r) ==
  IF i > 0 /\ i < Len(shuffled)
    THEN FisherYates(Swap(shuffled, i, RandomIndex(Random(r, Len(shuffled) - i), i)),
                     i - 1, r)
    ELSE shuffled

shuffleDeck(d, r) == FisherYates(d, Len(d) - 1, r)

----------------------------------------------------------------------------
(* server.ts: the GameState object as a record, and the helper functions   *)

State == [phase |-> phase, players |-> players,
          currentPlayerIndex |-> currentPlayerIndex, deck |-> deck,
          discard |-> discard, roundNumber |-> roundNumber, hostId |-> hostId,
          lastAction |-> lastAction, winner |-> winner]

createInitialState(host) ==
  [phase |-> "lobby", players |-> <<>>, currentPlayerIndex |-> 0,
   deck |-> <<>>, discard |-> <<>>, roundNumber |-> 0, hostId |-> host,
   lastAction |-> <<>>, winner |-> null]

newPlayer(conn, name) ==
  [id |-> conn, name |-> name, cards |-> <<>>, score |-> 0, roundScore |-> 0,
   busted |-> FALSE, stayed |-> FALSE, hasSecondChance |-> FALSE,
   connected |-> TRUE]

IsNumber(k) == Card(k).type = "number"

IsModifier(k) == Card(k).type = "modifier"

IsSecondChance(k) == Card(k).type = "second_chance"

NotSecondChance(k) == Card(k).type # "second_chance"

RECURSIVE SumValues(_)
SumValues(cards) ==
  IF cards = <<>> THEN 0 ELSE Card(Head(cards)).value + SumValues(Tail(cards))

NumberValues(cards) ==
  {Card(cards[i]).value : i \in {x \in 1..Len(cards) : Card(cards[x]).type = "number"}}

\* calculateRoundScore doubling the modifiers and the bonus with the numbers
calculateRoundScoreDoublesAll(player) ==
  LET hasMultiplier == \E i \in 1..Len(player.cards) : Card(player.cards[i]).type = "multiplier"
      total == SumValues(SelectSeq(player.cards, IsNumber))
                 + SumValues(SelectSeq(player.cards, IsModifier))
                 + (IF Cardinality(NumberValues(player.cards)) >= Flip7Count
                      THEN Flip7Bonus ELSE 0)
  IN IF hasMultiplier THEN total * 2 ELSE total

calculateRoundScore(player) ==
  LET numberCards   == SelectSeq(player.cards, IsNumber)
      modifiers     == SelectSeq(player.cards, IsModifier)
      hasMultiplier == \E i \in 1..Len(player.cards) : Card(player.cards[i]).type = "multiplier"
      numberSum     == IF hasMultiplier THEN SumValues(numberCards) * 2
                                        ELSE SumValues(numberCards)
      modifierSum   == SumValues(modifiers)
      flip7Bonus    == IF Cardinality(NumberValues(player.cards)) >= Flip7Count
                         THEN Flip7Bonus ELSE 0
  IN numberSum + modifierSum + flip7Bonus

getUniqueNumberCount(player) == Cardinality(NumberValues(player.cards))

hasNumberDuplicate(player, card) ==
  IF Card(card).type # "number" THEN FALSE
  ELSE \E i \in 1..Len(player.cards) :
         /\ Card(player.cards[i]).type = "number"
         /\ Card(player.cards[i]).value = Card(card).value

Active(p) == ~p.busted /\ ~p.stayed

RECURSIVE NextActiveFrom(_, _, _)
NextActiveFrom(S, fromIndex, i) ==
  LET count == Len(S.players)
      idx   == (fromIndex + i) % count
  IN IF i <= count
       THEN IF Active(S.players[idx + 1]) THEN idx
            ELSE NextActiveFrom(S, fromIndex, i + 1)
       ELSE -1

\* getNextActivePlayerIndex whose loop stops before it is back at fromIndex
getNextActiveOtherIndex(S, fromIndex) ==
  IF NextActiveFrom(S, fromIndex, 1) = fromIndex THEN -1
  ELSE NextActiveFrom(S, fromIndex, 1)

getNextActivePlayerIndex(S, fromIndex) == NextActiveFrom(S, fromIndex, 1)

isRoundOver(S) == \A i \in 1..Len(S.players) : ~Active(S.players[i])

\* deck.pop() reading the last card of d without taking it off
popDeckKeepsCard(S, d, disc) ==
  IF Len(d) = 0
    THEN [state |-> [S EXCEPT !.deck = d, !.discard = disc],
          card |-> 0, undefined |-> TRUE]
    ELSE [state |-> [S EXCEPT !.deck = d, !.discard = disc],
          card |-> d[Len(d)], undefined |-> FALSE]

\* deck.pop() on the array d; undefined is TRUE when d is empty
popDeck(S, d, disc) ==
  IF Len(d) = 0
    THEN [state |-> [S EXCEPT !.deck = d, !.discard = disc],
          card |-> 0, undefined |-> TRUE]
    ELSE [state |-> [S EXCEPT !.deck = SubSeq(d, 1, Len(d) - 1), !.discard = disc],
          card |-> d[Len(d)], undefined |-> FALSE]

\* drawCard leaving the discard pile as it is when it shuffles it into the deck
drawCardKeepsDiscard(S, r) ==
  IF Len(S.deck) = 0
    THEN popDeck(S, shuffleDeck(S.discard, r), S.discard)
    ELSE popDeck(S, S.deck, S.discard)

drawCard(S, r) ==
  IF Len(S.deck) = 0
    THEN popDeck(S, shuffleDeck(S.discard, r), <<>>)
    ELSE popDeck(S, S.deck, S.discard)

Result(S, b, f, s) == [state |-> S, busted |-> b, flip7 |-> f, savedBySecondChance |-> s]

\* withRoundScore leaving the stored round score as it was
withStaleRoundScore(p) == p

withRoundScore(p) == [p EXCEPT !.roundScore = calculateRoundScore(p)]

\* secondChanceSave discarding the duplicate alone: the second chance cards
\* leave the hand and reach no pile
secondChanceSaveLosesCard(S, pi, player, card, fromFlipThree) ==
  Result([S EXCEPT !.players[pi] =
                     withRoundScore([player EXCEPT
                        !.hasSecondChance = FALSE,
                        !.cards = SelectSeq(player.cards, NotSecondChance),
                        !.stayed = IF fromFlipThree THEN @ ELSE TRUE]),
                   !.discard = @ \o <<card>>,
                   !.lastAction = <<"saved", player.name, Card(card).value>>],
         FALSE, FALSE, TRUE)

\* secondChanceSave that never marks the player stayed
secondChanceSaveNoStay(S, pi, player, card, fromFlipThree) ==
  Result([S EXCEPT !.players[pi] =
                     withRoundScore([player EXCEPT
                        !.hasSecondChance = FALSE,
                        !.cards = SelectSeq(player.cards, NotSecondChance)]),
                   !.discard = (@ \o <<card>>) \o SelectSeq(player.cards, IsSecondChance),
                   !.lastAction = <<"saved", player.name, Card(card).value>>],
         FALSE, FALSE, TRUE)

\* secondChanceSave leaving hasSecondChance set
secondChanceSaveKeepsFlag(S, pi, player, card, fromFlipThree) ==
  Result([S EXCEPT !.players[pi] =
                     withRoundScore([player EXCEPT
                        !.cards = SelectSeq(player.cards, NotSecondChance),
                        !.stayed = IF fromFlipThree THEN @ ELSE TRUE]),
                   !.discard = (@ \o <<card>>) \o SelectSeq(player.cards, IsSecondChance),
                   !.lastAction = <<"saved", player.name, Card(card).value>>],
         FALSE, FALSE, TRUE)

\* processCard, a duplicate number card, the player holding a second chance
secondChanceSave(S, pi, player, card, fromFlipThree) ==
  Result([S EXCEPT !.players[pi] =
                     withRoundScore([player EXCEPT
                        !.hasSecondChance = FALSE,
                        !.cards = SelectSeq(player.cards, NotSecondChance),
                        !.stayed = IF fromFlipThree THEN @ ELSE TRUE]),
                   !.discard = (@ \o <<card>>) \o SelectSeq(player.cards, IsSecondChance),
                   !.lastAction = <<"saved", player.name, Card(card).value>>],
         FALSE, FALSE, TRUE)

\* bust keeping the round score the hand had
bustKeepsScore(S, pi, player, card) ==
  Result([S EXCEPT !.players[pi] = [player EXCEPT !.busted = TRUE,
                                                  !.cards = Append(@, card)],
                   !.lastAction = <<"busted", player.name, Card(card).value>>],
         TRUE, FALSE, FALSE)

\* bust that does not push the duplicate to the hand
bustDropsCard(S, pi, player, card) ==
  Result([S EXCEPT !.players[pi] = [player EXCEPT !.busted = TRUE,
                                                  !.roundScore = 0],
                   !.lastAction = <<"busted", player.name, Card(card).value>>],
         TRUE, FALSE, FALSE)

\* processCard, a duplicate number card, no second chance
bust(S, pi, player, card) ==
  Result([S EXCEPT !.players[pi] = [player EXCEPT !.busted = TRUE,
                                                  !.roundScore = 0,
                                                  !.cards = Append(@, card)],
                   !.lastAction = <<"busted", player.name, Card(card).value>>],
         TRUE, FALSE, FALSE)

\* newNumber that never reports a Flip 7
newNumberNoFlip7(S, pi, p, card) ==
  Result([S EXCEPT !.players[pi] = p,
                   !.lastAction = <<"drewNumber", p.name, Card(card).value>>],
         FALSE, FALSE, FALSE)

\* processCard, a new number value: p is the player with the card pushed and
\* the round score recomputed
newNumber(S, pi, p, card) ==
  IF getUniqueNumberCount(p) >= Flip7Count
    THEN Result([S EXCEPT !.players[pi] = [p EXCEPT !.stayed = TRUE],
                          !.lastAction = <<"flip7", p.name>>],
                FALSE, TRUE, FALSE)
    ELSE Result([S EXCEPT !.players[pi] = p,
                          !.lastAction = <<"drewNumber", p.name, Card(card).value>>],
                FALSE, FALSE, FALSE)

processPlayerCard(S, pi, player, card, fromFlipThree) ==
  IF Card(card).type = "number"
    THEN IF hasNumberDuplicate(player, card)
           THEN IF player.hasSecondChance
                  THEN secondChanceSave(S, pi, player, card, fromFlipThree)
                  ELSE bust(S, pi, player, card)
           ELSE newNumber(S, pi, withRoundScore([player EXCEPT !.cards = Append(@, card)]),
                          card)
  ELSE IF Card(card).type = "second_chance"
    THEN Result([S EXCEPT !.players[pi] = [player EXCEPT !.cards = Append(@, card),
                                                        !.hasSecondChance = TRUE],
                          !.lastAction = IF player.hasSecondChance
                                           THEN <<"anotherSecondChance", player.name>>
                                           ELSE <<"drewSecondChance", player.name>>],
                FALSE, FALSE, FALSE)
  ELSE Result([S EXCEPT !.players[pi] =
                          withRoundScore([player EXCEPT !.cards = Append(@, card)]),
                        !.lastAction = <<"drewCard", player.name, Card(card).type,
                                         Card(card).value>>],
              FALSE, FALSE, FALSE)

processCard(S, playerIndex, card, fromFlipThree) ==
  processPlayerCard(S, playerIndex + 1, S.players[playerIndex + 1], card, fromFlipThree)

----------------------------------------------------------------------------
(* server.ts: turn engine                                                  *)

\* addRoundScore assigning the round score to the cumulative score
addRoundScoreReplaces(p, rs) == [p EXCEPT !.roundScore = rs, !.score = rs]

addRoundScore(p, rs) == [p EXCEPT !.roundScore = rs, !.score = @ + rs]

\* scoreRound without the test of the busted flag
scoreRoundOfAll(p) == addRoundScore(p, calculateRoundScore(p))

scoreRound(p) == IF ~p.busted THEN addRoundScore(p, calculateRoundScore(p)) ELSE p

\* Math.max(...players.map(p => p.score))
maxScoreOf(ps) ==
  CHOOSE m \in {ps[i].score : i \in 1..Len(ps)} : \A i \in 1..Len(ps) : ps[i].score <= m

ScoreIs(ps, m) == {i \in 1..Len(ps) : ps[i].score = m}

\* winners[0] when exactly one player holds the maximum
soleWinner(ps) == ps[CHOOSE i \in ScoreIs(ps, maxScoreOf(ps)) : TRUE]

gameOver(S, scored, w) ==
  [S EXCEPT !.players = scored, !.winner = w.id, !.phase = "game_over",
            !.lastAction = <<"wins", w.name, w.score>>]

\* decideRound asking for a score above targetScore
decideRoundAbove(S, scored) ==
  IF /\ \E i \in 1..Len(scored) : scored[i].score > targetScore
     /\ Cardinality(ScoreIs(scored, maxScoreOf(scored))) = 1
    THEN gameOver(S, scored, soleWinner(scored))
    ELSE [S EXCEPT !.players = scored, !.phase = "round_end",
                   !.lastAction = <<"roundComplete", S.roundNumber>>]

\* endRound after its scoring loop has left the players scored
decideRound(S, scored) ==
  IF /\ \E i \in 1..Len(scored) : scored[i].score >= targetScore
     /\ Cardinality(ScoreIs(scored, maxScoreOf(scored))) = 1
    THEN gameOver(S, scored, soleWinner(scored))
    ELSE [S EXCEPT !.players = scored, !.phase = "round_end",
                   !.lastAction = <<"roundComplete", S.roundNumber>>]

endRound(S) == decideRound(S, [i \in 1..Len(S.players) |-> scoreRound(S.players[i])])

advanceTurn(S) ==
  IF isRoundOver(S) \/ getNextActivePlayerIndex(S, S.currentPlayerIndex) = -1
    THEN endRound(S)
    ELSE [S EXCEPT !.currentPlayerIndex = getNextActivePlayerIndex(S, S.currentPlayerIndex)]

\* the loop of handleHit and handleFlipThree after a Flip 7
stayAllActive(S) ==
  [S EXCEPT !.players =
     [i \in 1..Len(S.players) |->
        IF Active(S.players[i])
          THEN withRoundScore([S.players[i] EXCEPT !.stayed = TRUE])
          ELSE S.players[i]]]

RECURSIVE AllCards(_)
AllCards(ps) == IF ps = <<>> THEN <<>> ELSE Head(ps).cards \o AllCards(Tail(ps))

\* resetForRound that also clears the cumulative score
resetForRoundClearsScore(p) ==
  [p EXCEPT !.cards = <<>>, !.score = 0, !.roundScore = 0, !.busted = FALSE,
            !.stayed = FALSE, !.hasSecondChance = FALSE]

resetForRound(p) ==
  [p EXCEPT !.cards = <<>>, !.roundScore = 0, !.busted = FALSE,
            !.stayed = FALSE, !.hasSecondChance = FALSE]

\* startNewRound building a fresh deck and an empty discard pile in every round
startNewRoundFreshDeck(S, r) ==
  [S EXCEPT !.roundNumber = @ + 1,
            !.phase = "playing",
            !.deck = shuffleDeck(createDeckRefs, r),
            !.discard = AllCards(S.players),
            !.players = [i \in 1..Len(S.players) |-> resetForRound(S.players[i])],
            !.currentPlayerIndex = 0,
            !.lastAction = <<"roundStarted", S.roundNumber + 1>>]

startNewRound(S, r) ==
  [S EXCEPT !.roundNumber = @ + 1,
            !.phase = "playing",
            !.deck = IF S.roundNumber + 1 = 1 THEN shuffleDeck(createDeckRefs, r) ELSE @,
            !.discard = (IF S.roundNumber + 1 = 1 THEN <<>> ELSE @) \o AllCards(S.players),
            !.players = [i \in 1..Len(S.players) |-> resetForRound(S.players[i])],
            !.currentPlayerIndex = 0,
            !.lastAction = <<"roundStarted", S.roundNumber + 1>>]

----------------------------------------------------------------------------
(* server.ts: what one handler sends                                       *)

Nothing == [kind |-> "none", to |-> EmptyId, message |-> ""]

Broadcast == [kind |-> "broadcast", to |-> EmptyId, message |-> ""]

StateTo(conn) == [kind |-> "state", to |-> conn, message |-> ""]

Error(conn, text) == [kind |-> "error", to |-> conn, message |-> text]

Out(S, s) == [state |-> S, sent |-> s]

\* index (from 0) of the first player with this id or name, -1 if none
RECURSIVE FindFrom(_, _, _, _)
FindFrom(ps, field, v, i) ==
  IF i > Len(ps) THEN -1
  ELSE IF ps[i][field] = v THEN i - 1
  ELSE FindFrom(ps, field, v, i + 1)

findIndexById(ps, conn) == FindFrom(ps, "id", conn, 1)

findIndexByName(ps, name) == FindFrom(ps, "name", name, 1)

----------------------------------------------------------------------------
(* server.ts: the handlers, each as the state and the output it leaves     *)

onConnect(S, conn) == Out(S, StateTo(conn))

\* closePlayer taking the hand of the player who left
closePlayerDropsHand(S, i) ==
  IF i # -1
    THEN Out([S EXCEPT !.players[i + 1].connected = FALSE,
                       !.players[i + 1].cards = <<>>], Broadcast)
    ELSE Out(S, Nothing)

closePlayer(S, i) ==
  IF i # -1
    THEN Out([S EXCEPT !.players[i + 1].connected = FALSE], Broadcast)
    ELSE Out(S, Nothing)

onClose(S, conn) == closePlayer(S, findIndexById(S.players, conn))

\* joinAs admitting a name that is already taken in the lobby
joinAsAnyName(S, conn, name, existing) ==
  IF S.phase # "lobby"
    THEN IF existing # -1
           THEN Out([S EXCEPT !.players[existing + 1].id = conn,
                              !.players[existing + 1].connected = TRUE],
                    Broadcast)
           ELSE Out(S, Error(conn, "Game already in progress"))
  ELSE Out([S EXCEPT !.hostId = IF Len(S.players) = 0 THEN conn ELSE @,
                     !.players = Append(@, newPlayer(conn, name)),
                     !.lastAction = <<"joined", name>>],
           Broadcast)

\* joinAs giving a reconnecting player a fresh seat
joinAsReseated(S, conn, name, existing) ==
  IF S.phase # "lobby"
    THEN IF existing # -1
           THEN Out([S EXCEPT !.players[existing + 1] = newPlayer(conn, name)], Broadcast)
           ELSE Out(S, Error(conn, "Game already in progress"))
  ELSE IF existing # -1
    THEN Out(S, Error(conn, "Name already taken"))
  ELSE Out([S EXCEPT !.hostId = IF Len(S.players) = 0 THEN conn ELSE @,
                     !.players = Append(@, newPlayer(conn, name)),
                     !.lastAction = <<"joined", name>>],
           Broadcast)

joinAs(S, conn, name, existing) ==
  IF S.phase # "lobby"
    THEN IF existing # -1
           THEN Out([S EXCEPT !.players[existing + 1].id = conn,
                              !.players[existing + 1].connected = TRUE],
                    Broadcast)
           ELSE Out(S, Error(conn, "Game already in progress"))
  ELSE IF existing # -1
    THEN Out(S, Error(conn, "Name already taken"))
  ELSE Out([S EXCEPT !.hostId = IF Len(S.players) = 0 THEN conn ELSE @,
                     !.players = Append(@, newPlayer(conn, name)),
                     !.lastAction = <<"joined", name>>],
           Broadcast)

handleJoin(S, conn, name) == joinAs(S, conn, name, findIndexByName(S.players, name))

handleStartGame(S, conn, r) ==
  IF conn # S.hostId THEN Out(S, Error(conn, "Only the host can start"))
  ELSE IF Len(S.players) < 2 THEN Out(S, Error(conn, "Need at least 2 players"))
  ELSE Out(startNewRound(S, r), Broadcast)

\* flip7End without the loop that stays the active players
flip7EndNoStay(S) == Out(endRound(S), Broadcast)

\* handleHit and handleFlipThree when processCard reports a Flip 7
flip7End(S) == Out(endRound(stayAllActive(S)), Broadcast)

\* handleHit after processCard
afterHit(result) ==
  IF result.flip7 THEN flip7End(result.state)
  ELSE Out(advanceTurn(result.state), Broadcast)

\* handleHit from drawCard on.  A draw that yields undefined makes
\* processCard throw on card.type: the handler ends there, keeping what it
\* has written and sending nothing.
hitDrawn(playerIndex, drawn) ==
  IF drawn.undefined THEN Out(drawn.state, Nothing)
  ELSE afterHit(processCard(drawn.state, playerIndex, drawn.card, FALSE))

\* turnCheck dropping the message of another connection without an error
turnCheckSilent(S, conn, currentPlayer) == Out(S, Nothing)

turnCheck(S, conn, currentPlayer) ==
  IF conn # currentPlayer.id THEN Out(S, Error(conn, "Not your turn"))
  ELSE Out(S, Nothing)

handleHit(S, conn, r) ==
  IF S.phase # "playing" THEN Out(S, Nothing)
  ELSE IF conn # S.players[S.currentPlayerIndex + 1].id
          \/ ~Active(S.players[S.currentPlayerIndex + 1])
    THEN turnCheck(S, conn, S.players[S.currentPlayerIndex + 1])
  ELSE hitDrawn(S.currentPlayerIndex, drawCard(S, r))

\* stayPlayer that also wipes the round scores of the other players
stayPlayerWipesOthers(S, ci, stayed) ==
  Out(advanceTurn([S EXCEPT !.players = [j \in 1..Len(S.players) |->
                                          IF j = ci THEN stayed
                                          ELSE [S.players[j] EXCEPT !.roundScore = 0]],
                            !.lastAction = <<"stayed", stayed.name, stayed.roundScore>>]),
      Broadcast)

stayPlayer(S, ci, stayed) ==
  Out(advanceTurn([S EXCEPT !.players[ci] = stayed,
                            !.lastAction = <<"stayed", stayed.name, stayed.roundScore>>]),
      Broadcast)

handleStay(S, conn) ==
  IF S.phase # "playing" THEN Out(S, Nothing)
  ELSE IF conn # S.players[S.currentPlayerIndex + 1].id
          \/ ~Active(S.players[S.currentPlayerIndex + 1])
    THEN turnCheck(S, conn, S.players[S.currentPlayerIndex + 1])
  ELSE stayPlayer(S, S.currentPlayerIndex + 1,
                  withRoundScore([S.players[S.currentPlayerIndex + 1] EXCEPT !.stayed = TRUE]))

\* the end of handleFlipThree, after its loop
afterFlipLoop(S) == Out(IF isRoundOver(S) THEN endRound(S) ELSE S, Broadcast)

\* one iteration of the loop of handleFlipThree, from processCard on:
\* continue is TRUE when the loop goes on to the next iteration
flipResult(result, playerIndex) ==
  IF result.flip7 THEN [continue |-> FALSE, out |-> flip7End(result.state)]
  ELSE IF result.busted \/ result.state.players[playerIndex + 1].busted
    THEN [continue |-> FALSE, out |-> afterFlipLoop(result.state)]
  ELSE [continue |-> TRUE, out |-> Out(result.state, Nothing)]

flipDrawn(playerIndex, drawn) ==
  IF drawn.undefined
    THEN [continue |-> FALSE, out |-> Out(drawn.state, Nothing)]
    ELSE flipResult(processCard(drawn.state, playerIndex, drawn.card, TRUE), playerIndex)

flipIteration(S, playerIndex, r) == flipDrawn(playerIndex, drawCard(S, r))

\* the for loop of handleFlipThree: iteration i, entered with step = the
\* outcome of iteration i - 1
RECURSIVE flipThreeLoop(_, _, _, _)
flipThreeLoop(step, playerIndex, i, r) ==
  IF ~step.continue THEN step.out
  ELSE IF i >= FlipThreeDraws THEN afterFlipLoop(step.out.state)
  ELSE flipThreeLoop(flipIteration(step.out.state, playerIndex, r), playerIndex, i + 1, r)

flipThreeOf(S, playerIndex, r) ==
  IF playerIndex = -1 THEN Out(S, Nothing)
  ELSE IF ~Active(S.players[playerIndex + 1]) THEN Out(S, Nothing)
  ELSE flipThreeLoop([continue |-> TRUE,
                      out |-> Out([S EXCEPT !.lastAction =
                                     <<"flipping3", S.players[playerIndex + 1].name>>],
                                  Nothing)],
                     playerIndex, 0, r)

handleFlipThree(S, conn, r) ==
  IF S.phase # "playing" THEN Out(S, Nothing)
  ELSE flipThreeOf(S, findIndexById(S.players, conn), r)

\* handleFreeze once the player is marked stayed
afterFreeze(S, player) ==
  IF S.players[S.currentPlayerIndex + 1].id = player.id THEN Out(advanceTurn(S), Broadcast)
  ELSE afterFlipLoop(S)

freezePlayer(S, pi, player) ==
  afterFreeze([S EXCEPT !.players[pi] = player,
                        !.lastAction = <<"frozen", player.name, player.roundScore>>],
              player)

freezeOf(S, i) ==
  IF i = -1 THEN Out(S, Nothing)
  ELSE IF ~Active(S.players[i + 1]) THEN Out(S, Nothing)
  ELSE freezePlayer(S, i + 1, withRoundScore([S.players[i + 1] EXCEPT !.stayed = TRUE]))

handleFreeze(S, conn) ==
  IF S.phase # "playing" THEN Out(S, Nothing)
  ELSE freezeOf(S, findIndexById(S.players, conn))

handleNewRound(S, conn, r) ==
  IF S.phase # "round_end" THEN Out(S, Nothing)
  ELSE IF conn # S.hostId THEN Out(S, Error(conn, "Only the host can advance"))
  ELSE Out(startNewRound(S, r), Broadcast)

\* restartPlayer keeping the cumulative score
restartPlayerKeepsScore(p) ==
  [p EXCEPT !.cards = <<>>, !.roundScore = 0, !.busted = FALSE,
            !.stayed = FALSE, !.hasSecondChance = FALSE]

restartPlayer(p) ==
  [p EXCEPT !.cards = <<>>, !.score = 0, !.roundScore = 0, !.busted = FALSE,
            !.stayed = FALSE, !.hasSecondChance = FALSE]

handleRestart(S, conn) ==
  IF conn # S.hostId THEN Out(S, Nothing)
  ELSE Out([createInitialState(S.hostId) EXCEPT
              !.players = [i \in 1..Len(S.players) |-> restartPlayer(S.players[i])],
              !.phase = "lobby",
              !.lastAction = <<"restarted">>],
           Broadcast)

----------------------------------------------------------------------------
(* The room: one action per event                                          *)

Apply(out) ==
  /\ phase' = out.state.phase
  /\ players' = out.state.players
  /\ currentPlayerIndex' = out.state.currentPlayerIndex
  /\ deck' = out.state.deck
  /\ discard' = out.state.discard
  /\ roundNumber' = out.state.roundNumber
  /\ hostId' = out.state.hostId
  /\ lastAction' = out.state.lastAction
  /\ winner' = out.state.winner

\* a shuffle happens only in these cases; elsewhere Math.random() is not called
DrawRandoms == IF Len(deck) = 0 THEN Reshuffles ELSE {CHOOSE r \in Randoms : TRUE}

StartRandoms == IF roundNumber = 0 THEN Randoms ELSE {CHOOSE r \in Randoms : TRUE}

Init ==
  /\ phase = "lobby"
  /\ players = <<>>
  /\ currentPlayerIndex = 0
  /\ deck = <<>>
  /\ discard = <<>>
  /\ roundNumber = 0
  /\ hostId = EmptyId
  /\ lastAction = <<>>
  /\ winner = null

Connect(conn) == Apply(onConnect(State, conn))

\* connections are lost and rebound in the rounds up to MaxRound
Close(conn) ==
  /\ roundNumber <= MaxRound
  /\ Apply(onClose(State, conn))

\* onMessage with a message JSON.parse rejects, or of a type no case matches
Unparseable(conn) == Apply(Out(State, Nothing))

Join(conn, name) ==
  /\ roundNumber <= MaxRound
  /\ Apply(handleJoin(State, conn, name))

StartGame(conn) ==
  /\ roundNumber \in StartableRounds
  /\ \E r \in StartRandoms : Apply(handleStartGame(State, conn, r))

Hit(conn) == \E r \in DrawRandoms : Apply(handleHit(State, conn, r))

Stay(conn) == Apply(handleStay(State, conn))

FlipThree(conn) == \E r \in DrawRandoms : Apply(handleFlipThree(State, conn, r))

Freeze(conn) == Apply(handleFreeze(State, conn))

NewRound(conn) ==
  /\ roundNumber \in StartableRounds
  /\ \E r \in StartRandoms : Apply(handleNewRound(State, conn, r))

Restart(conn) == Apply(handleRestart(State, conn))

Next ==
  \E conn \in Conns :
    \/ Connect(conn)
    \/ Close(conn)
    \/ Unparseable(conn)
    \/ \E name \in Names : Join(conn, name)
    \/ StartGame(conn)
    \/ Hit(conn)
    \/ Stay(conn)
    \/ FlipThree(conn)
    \/ Freeze(conn)
    \/ NewRound(conn)
    \/ Restart(conn)

Spec == Init /\ [][Next]_vars

----------------------------------------------------------------------------
(* The late game.  Cumulative scores near targetScore take many rounds to  *)
(* reach, so a second specification begins where round LateRound has just *)
(* been started by new_round, in a state the room gets to as follows.      *)
(* Connection 1 joins as name 1, connection 2 as name 2, and the host      *)
(* starts the game; the first shuffle leaves the draw pile so that the     *)
(* cards are drawn in the order the play below asks for.  In every round   *)
(* each player hits until the hand is the next run of createDeck (a run    *)
(* ends with a duplicate number, which busts, or with a stay; an empty run *)
(* is a stay on the first turn).  Two players get through the 95 cards in  *)
(* LateRound - 1 rounds without a second shuffle, nobody reaching          *)
(* targetScore; startNewRound appends the hands of each round to the       *)
(* discard pile player by player, so at the start of round LateRound the   *)
(* draw pile is empty and the discard pile is createDeck in its order.     *)
(* For the scores <<188, 188>>: in round 1 the first player busts on the   *)
(* cards 0 to 3 (0, 1, 2, 2) and the second on the cards 4 and 5 (3, 3),   *)
(* and so on through createDeck; in round LateRound - 1 the first player   *)
(* stays on no card at 188 and the second, at 126, stays on the last 12    *)
(* and the sixteen action, modifier and multiplier cards, worth 62.  Runs  *)
(* of the same kind give every pair of scores in LateScores.               *)

LateScores == {188, 195}

latePlayer(conn, name, score) == [newPlayer(conn, name) EXCEPT !.score = score]

InitLate ==
  /\ phase = "playing"
  /\ \E s1 \in LateScores, s2 \in LateScores :
       players = <<latePlayer(1, 1, s1), latePlayer(2, 2, s2)>>
  /\ currentPlayerIndex = 0
  /\ deck = <<>>
  /\ discard = createDeckRefs
  /\ roundNumber = LateRound
  /\ hostId = 1
  /\ lastAction = <<"roundStarted", LateRound>>
  /\ winner = null

SpecLate == InitLate /\ [][Next]_vars

----------------------------------------------------------------------------
(* Scoring.  calculateRoundScore is applied to hands of many shapes in a   *)
(* third specification: round 1 has just been started, the second player   *)
(* has sent use_freeze, and the first player hits or stays.  The shuffle   *)
(* has left a chosen set of cards of ScorePool on top of the draw pile in  *)
(* ascending or in descending order, above the rest of createDeck.         *)

\* the numbers 0, 1, 2, 3, 4, 5 and 12, a second chance, the modifier +2 and
\* the multiplier
ScorePool == <<0, 1, 2, 4, 7, 11, 78, 81, 88, 94>>

Range(seq) == {seq[i] : i \in 1..Len(seq)}

RECURSIVE Picked(_, _)
Picked(seq, chosen) ==
  IF seq = <<>> THEN <<>>
  ELSE (IF Head(seq) \in chosen THEN <<Head(seq)>> ELSE <<>>) \o Picked(Tail(seq), chosen)

Reversed(seq) == [i \in 1..Len(seq) |-> seq[Len(seq) + 1 - i]]

\* the draw pile with the cards of onTop above the others; the last one of
\* onTop is drawn first
ScoreDeck(onTop) == Picked(createDeckRefs, Range(createDeckRefs) \ Range(onTop)) \o onTop

ScoreStart(d) ==
  [phase |-> "playing", players |-> <<newPlayer(1, 1), newPlayer(2, 2)>>,
   currentPlayerIndex |-> 0, deck |-> d, discard |-> <<>>, roundNumber |-> 1,
   hostId |-> 1, lastAction |-> <<"roundStarted", 1>>, winner |-> null]

StartsAs(S) ==
  /\ phase = S.phase
  /\ players = S.players
  /\ currentPlayerIndex = S.currentPlayerIndex
  /\ deck = S.deck
  /\ discard = S.discard
  /\ roundNumber = S.roundNumber
  /\ hostId = S.hostId
  /\ lastAction = S.lastAction
  /\ winner = S.winner

InitScore ==
  \E chosen \in SUBSET Range(ScorePool) :
    \E onTop \in {Picked(ScorePool, chosen), Reversed(Picked(ScorePool, chosen))} :
      StartsAs(handleFreeze(ScoreStart(ScoreDeck(onTop)), 2).state)

NextScore == \E conn \in Conns : Hit(conn) \/ Stay(conn)

SpecScore == InitScore /\ [][NextScore]_vars

----------------------------------------------------------------------------
(* A full table.  handleJoin sets no limit to the number of players, and a *)
(* hand holds six distinct numbers, or seven numbers once it is busted, so *)
(* NumCrowd players can hold the 79 number cards and the 16 others between *)
(* them.  In a fourth specification NumCrowd connections have joined, the  *)
(* host has started round 1, and the players hit in turn; the shuffle has  *)
(* left the deck in one of two orders in which every player first draws    *)
(* six distinct numbers, seven players then draw a duplicate, and the      *)
(* others draw the action, modifier and multiplier cards.  The host may    *)
(* send start_game again, which handleStartGame accepts in any phase: the  *)
(* hands go to the discard pile, and the draw pile runs out with cards in  *)
(* the discard pile.  The connections of Conns may join again under the    *)
(* names of Names, which binds the seat of that name to the sender.        *)

NumCrowd == 12

CrowdConns == 1..NumCrowd

CrowdRandom1 ==
  <<<<36, 95>>, <<71, 94>>, <<44, 93>>, <<41, 92>>, <<35, 91>>, <<31, 90>>, <<46, 89>>, <<20, 88>>,
    <<52, 87>>, <<13, 86>>, <<53, 85>>, <<3, 84>>, <<25, 83>>, <<9, 82>>, <<2, 81>>, <<75, 80>>,
    <<55, 79>>, <<43, 78>>, <<59, 77>>, <<5, 76>>, <<39, 75>>, <<42, 74>>, <<1, 73>>, <<21, 72>>,
    <<47, 71>>, <<19, 70>>, <<32, 69>>, <<51, 68>>, <<45, 67>>, <<18, 66>>, <<6, 65>>, <<42, 64>>,
    <<10, 63>>, <<19, 62>>, <<38, 61>>, <<49, 60>>, <<14, 59>>, <<54, 58>>, <<43, 57>>, <<19, 56>>,
    <<0, 55>>, <<32, 54>>, <<37, 53>>, <<40, 52>>, <<38, 51>>, <<14, 50>>, <<40, 49>>, <<1, 48>>,
    <<42, 47>>, <<33, 46>>, <<18, 45>>, <<26, 44>>, <<27, 43>>, <<33, 42>>, <<14, 41>>, <<0, 40>>,
    <<23, 39>>, <<23, 38>>, <<17, 37>>, <<26, 36>>, <<0, 35>>, <<10, 34>>, <<24, 33>>, <<8, 32>>,
    <<19, 31>>, <<15, 30>>, <<16, 29>>, <<14, 28>>, <<1, 27>>, <<16, 26>>, <<6, 25>>, <<0, 24>>,
    <<11, 23>>, <<19, 22>>, <<11, 21>>, <<7, 20>>, <<15, 19>>, <<12, 18>>, <<4, 17>>, <<10, 16>>,
    <<3, 15>>, <<9, 14>>, <<12, 13>>, <<1, 12>>, <<8, 11>>, <<7, 10>>, <<0, 9>>, <<6, 8>>,
    <<0, 7>>, <<1, 6>>, <<4, 5>>, <<2, 4>>, <<2, 3>>, <<1, 2>>>>

CrowdRandom2 ==
  <<<<58, 95>>, <<3, 94>>, <<57, 93>>, <<62, 92>>, <<68, 91>>, <<5, 90>>, <<52, 89>>, <<43, 88>>,
    <<54, 87>>, <<38, 86>>, <<45, 85>>, <<61, 84>>, <<50, 83>>, <<25, 82>>, <<48, 81>>, <<20, 80>>,
    <<42, 79>>, <<55, 78>>, <<33, 77>>, <<13, 76>>, <<6, 75>>, <<46, 74>>, <<28, 73>>, <<15, 72>>,
    <<33, 71>>, <<13, 70>>, <<26, 69>>, <<51, 68>>, <<12, 67>>, <<44, 66>>, <<44, 65>>, <<12, 64>>,
    <<56, 63>>, <<6, 62>>, <<44, 61>>, <<4, 60>>, <<39, 59>>, <<31, 58>>, <<51, 57>>, <<8, 56>>,
    <<53, 55>>, <<35, 54>>, <<24, 53>>, <<36, 52>>, <<15, 51>>, <<12, 50>>, <<9, 49>>, <<42, 48>>,
    <<7, 47>>, <<42, 46>>, <<40, 45>>, <<37, 44>>, <<4, 43>>, <<19, 42>>, <<28, 41>>, <<8, 40>>,
    <<32, 39>>, <<0, 38>>, <<34, 37>>, <<12, 36>>, <<21, 35>>, <<28, 34>>, <<10, 33>>, <<7, 32>>,
    <<27, 31>>, <<28, 30>>, <<1, 29>>, <<2, 28>>, <<14, 27>>, <<2, 26>>, <<13, 25>>, <<19, 24>>,
    <<17, 23>>, <<17, 22>>, <<19, 21>>, <<18, 20>>, <<11, 19>>, <<16, 18>>, <<1, 17>>, <<8, 16>>,
    <<2, 15>>, <<6, 14>>, <<0, 13>>, <<10, 12>>, <<0, 11>>, <<3, 10>>, <<0, 9>>, <<0, 8>>,
    <<5, 7>>, <<0, 6>>, <<0, 5>>, <<3, 4>>, <<1, 3>>, <<1, 2>>>>

CrowdRandoms == {CrowdRandom1, CrowdRandom2}

\* the lobby after connections 1 to n have joined, each under its own name
RECURSIVE Joined(_)
Joined(n) ==
  IF n = 0 THEN createInitialState(EmptyId)
  ELSE handleJoin(Joined(n - 1), n, n).state

InitCrowd ==
  \E r \in CrowdRandoms : StartsAs(handleStartGame(Joined(NumCrowd), 1, r).state)

NextCrowd ==
  \/ \E conn \in CrowdConns : Hit(conn) \/ StartGame(conn)
  \/ \E conn \in Conns, name \in Names : Join(conn, name)

SpecCrowd == InitCrowd /\ [][NextCrowd]_vars

----------------------------------------------------------------------------
(* Properties                                                              *)

TotalCards == Len(deck) + Len(discard) + Len(AllCards(players))

\* the player whose turn it is
current == players[currentPlayerIndex + 1]

\* the card the next draw takes from a draw pile that is not empty
top == deck[Len(deck)]

InPile(card, pile) == \E k \in 1..Len(pile) : pile[k] = card

\* C1 (as amended): in every reachable state in which the phase is not
\* "lobby", the draw pile, the discard pile and the hands of the players hold
\* 95 cards together.
C1_DeckConservation == phase # "lobby" => TotalCards = 95

\* C1 as stated: in every reachable state the draw pile, the discard pile and
\* the hands hold 95 cards together.
C1_DeckConservationEverywhere == TotalCards = 95

\* a second round under way: hands were moved to the discard pile and cards
\* were drawn again
C1_Witness ==
  /\ phase = "playing"
  /\ roundNumber = 2
  /\ Len(discard) > 0
  /\ Len(AllCards(players)) > 0
  /\ TotalCards = 95

\* C2: whenever the phase is "playing", currentPlayerIndex is an index into
\* players and the player there is neither busted nor stayed.
C2_CurrentPlayerActive ==
  phase = "playing" =>
    /\ currentPlayerIndex \in 0..(Len(players) - 1)
    /\ Active(current)

\* C3: a start_game changes the state only when the phase is "lobby", the
\* sender is the host and at least 2 players have joined; in the phases
\* "playing", "round_end" and "game_over" it leaves the state as it is.
C3_StartGameOnlyInLobby ==
  \A conn \in Conns : \A r \in StartRandoms :
    /\ handleStartGame(State, conn, r).state # State =>
         phase = "lobby" /\ conn = hostId /\ Len(players) >= 2
    /\ phase \in {"playing", "round_end", "game_over"} =>
         handleStartGame(State, conn, r).state = State

\* C5: during the phase "playing" a hit or a stay from a connection whose id
\* is not that of players[currentPlayerIndex] leaves the state as it is and
\* sends the error "Not your turn" to that connection alone; a hit or a stay
\* changes the state only when it comes from the connection of that player
\* and the player is neither busted nor stayed.
C5_NotYourTurn ==
  phase = "playing" =>
    \A conn \in Conns : \A r \in DrawRandoms :
      /\ conn # current.id =>
           /\ handleHit(State, conn, r) = Out(State, Error(conn, "Not your turn"))
           /\ handleStay(State, conn) = Out(State, Error(conn, "Not your turn"))
      /\ handleHit(State, conn, r).state # State => conn = current.id /\ Active(current)
      /\ handleStay(State, conn).state # State => conn = current.id /\ Active(current)

\* a round under way in which a seated player other than the current one
\* sends hit and is answered with the error
C5_Witness ==
  /\ phase = "playing"
  /\ \E conn \in Conns :
       /\ conn # current.id
       /\ findIndexById(players, conn) # -1
       /\ Active(players[findIndexById(players, conn) + 1])
       /\ \A r \in DrawRandoms :
            handleHit(State, conn, r).sent = Error(conn, "Not your turn")

\* what C8 says of the player p once the duplicate card is drawn
BustedWith(q, p, card) ==
  /\ q.busted
  /\ q.roundScore = 0
  /\ q.cards = Append(p.cards, card)

\* C8: when a player who is neither busted nor stayed and holds no second
\* chance draws a number card whose value a number card of the hand has, the
\* player is busted, the round score is 0 and the hand is the old hand with
\* the duplicate appended: for processCard on each of the cards the next
\* use_flip_three draws, for a hit of the current player and for a
\* use_flip_three of any player, on the card the next draw takes.
C8_BustOnDuplicate ==
  (phase = "playing" /\ Len(deck) >= FlipThreeDraws) =>
    /\ \A i \in 1..Len(players) : \A k \in 0..(FlipThreeDraws - 1) : \A f \in BOOLEAN :
         (/\ Active(players[i])
          /\ ~players[i].hasSecondChance
          /\ hasNumberDuplicate(players[i], deck[Len(deck) - k])) =>
            BustedWith(processCard(State, i - 1, deck[Len(deck) - k], f).state.players[i],
                       players[i], deck[Len(deck) - k])
    /\ (Active(current) /\ ~current.hasSecondChance /\ hasNumberDuplicate(current, top)) =>
         \A r \in DrawRandoms :
           BustedWith(handleHit(State, current.id, r).state.players[currentPlayerIndex + 1],
                      current, top)
    /\ \A conn \in Conns :
         (/\ findIndexById(players, conn) # -1
          /\ Active(players[findIndexById(players, conn) + 1])
          /\ ~players[findIndexById(players, conn) + 1].hasSecondChance
          /\ hasNumberDuplicate(players[findIndexById(players, conn) + 1], top)) =>
           \A r \in DrawRandoms :
             BustedWith(handleFlipThree(State, conn, r).state.players[findIndexById(players, conn) + 1],
                        players[findIndexById(players, conn) + 1], top)

\* a player has just busted on a duplicate 12, the round going on
C8_Witness ==
  /\ phase = "playing"
  /\ lastAction \in {<<"busted", name, MaxNumberValue>> : name \in Names}
  /\ \E i \in 1..Len(players) :
       /\ players[i].busted
       /\ players[i].roundScore = 0
       /\ Len(players[i].cards) >= 2
       /\ ~players[i].hasSecondChance

\* C9: in every reachable state every player whose busted flag is true has
\* roundScore 0.
C9_BustedScoresZero ==
  \A i \in 1..Len(players) : players[i].busted => players[i].roundScore = 0

\* a round ended by the Flip 7 of one player while another is busted
C9_Witness ==
  /\ phase \in {"round_end", "game_over"}
  /\ \E i \in 1..Len(players) : players[i].busted /\ Len(players[i].cards) >= 2
  /\ \E j \in 1..Len(players) : getUniqueNumberCount(players[j]) >= Flip7Count

\* what C10 says of the state T a hit leaves when the current player holds a
\* second chance and the card drawn duplicates a number of the hand
SavedOnHit(T) ==
  /\ ~T.players[currentPlayerIndex + 1].busted
  /\ T.players[currentPlayerIndex + 1].cards = SelectSeq(current.cards, NotSecondChance)
  /\ ~InPile(top, T.players[currentPlayerIndex + 1].cards)
  /\ InPile(top, T.discard)
  /\ \A k \in 1..Len(current.cards) :
       IsSecondChance(current.cards[k]) => InPile(current.cards[k], T.discard)
  /\ ~T.players[currentPlayerIndex + 1].hasSecondChance
  /\ T.players[currentPlayerIndex + 1].stayed
  /\ T.players[currentPlayerIndex + 1].roundScore =
       calculateRoundScore(T.players[currentPlayerIndex + 1])
  /\ IF \E i \in 1..Len(players) : i # currentPlayerIndex + 1 /\ Active(players[i])
       THEN /\ T.phase = "playing"
            /\ \E d \in 1..(Len(players) - 1) :
                 /\ T.currentPlayerIndex = (currentPlayerIndex + d) % Len(players)
                 /\ Active(players[T.currentPlayerIndex + 1])
                 /\ \A e \in 1..(d - 1) :
                      ~Active(players[((currentPlayerIndex + e) % Len(players)) + 1])
       ELSE T.phase \in {"round_end", "game_over"}

\* C10: when the current player, holding a second chance, hits and draws a
\* number card whose value the hand has: the player is not busted, the hand
\* is the old hand without the second chance card and without the duplicate,
\* both are in the discard pile, hasSecondChance is false, the player is
\* stayed with the round score of the hand that remains, and the turn moves
\* to the next player who is neither busted nor stayed (the round ends when
\* there is none).
C10_SecondChanceSave ==
  (/\ phase = "playing"
   /\ Len(deck) > 0
   /\ Active(current)
   /\ current.hasSecondChance
   /\ hasNumberDuplicate(current, top)) =>
     \A r \in DrawRandoms : SavedOnHit(handleHit(State, current.id, r).state)

\* a hit has just been saved by the second chance and the turn has moved on
C10_Witness ==
  /\ phase = "playing"
  /\ lastAction \in {<<"saved", name, MaxNumberValue>> : name \in Names}
  /\ \E i \in 1..Len(players) :
       /\ i # currentPlayerIndex + 1
       /\ players[i].stayed
       /\ ~players[i].busted
       /\ ~players[i].hasSecondChance
       /\ players[i].roundScore = MaxNumberValue
       /\ Len(players[i].cards) = 1
  /\ Len(discard) >= 2

\* C4: once the phase is "game_over" it stays "game_over", except that a
\* restart moves it to "lobby"; no step takes it to "playing" or "round_end".
C4_GameOverTerminal ==
  [][phase = "game_over" =>
       \/ phase' = "game_over"
       \/ phase' = "lobby" /\ lastAction' = <<"restarted">>]_vars

ReachedTarget(ps) == \E i \in 1..Len(ps) : ps[i].score >= 200

Leaders(ps) == {i \in 1..Len(ps) : \A j \in 1..Len(ps) : ps[j].score <= ps[i].score}

RoundEnds == phase = "playing" /\ phase' \in {"round_end", "game_over"}

C7_RoundEndScoring ==
  [][/\ RoundEnds =>
          /\ Len(players') = Len(players)
          /\ \A i \in 1..Len(players) :
               /\ ~players'[i].busted =>
                    /\ players'[i].roundScore = calculateRoundScore(players'[i])
                    /\ players'[i].score = players[i].score + players'[i].roundScore
               /\ players'[i].busted => players'[i].score = players[i].score
     /\ (~RoundEnds /\ phase' # "lobby") =>
          \A i \in 1..Len(players) : players'[i].score = players[i].score]_vars

\* a round ended by a Flip 7: its player and the other one, who was stayed
\* by it or before, have both been scored on top of the scores they had
C7_Witness ==
  /\ phase \in {"round_end", "game_over"}
  /\ roundNumber = LateRound
  /\ \E i \in 1..Len(players) : \E j \in 1..Len(players) :
       /\ i # j
       /\ getUniqueNumberCount(players[i]) >= Flip7Count
       /\ players[i].score \in {s + players[i].roundScore : s \in LateScores}
       /\ ~players[j].busted
       /\ players[j].roundScore > 0
       /\ players[j].score \in {s + players[j].roundScore : s \in LateScores}

SecondChanceCount(cards) == Len(SelectSeq(cards, IsSecondChance))

\* C11: when a player who holds k >= 1 second chance cards is saved from a
\* duplicate, the hand holds k - 1 of them afterwards and the discard pile
\* has grown by 2 cards, the duplicate and one second chance card.
C11_SaveTakesOneSecondChance ==
  (phase = "playing" /\ Len(deck) > 0) =>
    \A i \in 1..Len(players) : \A f \in BOOLEAN :
      (/\ Active(players[i])
       /\ players[i].hasSecondChance
       /\ SecondChanceCount(players[i].cards) >= 1
       /\ hasNumberDuplicate(players[i], top)) =>
         /\ SecondChanceCount(processCard(State, i - 1, top, f).state.players[i].cards)
              = SecondChanceCount(players[i].cards) - 1
         /\ Len(processCard(State, i - 1, top, f).state.discard) = Len(discard) + 2

\* C12: in every reachable state, for every player, hasSecondChance is true
\* exactly when the hand holds a card of type second_chance.
C12_SecondChanceFlag ==
  \A i \in 1..Len(players) :
    players[i].hasSecondChance <=> SecondChanceCount(players[i].cards) >= 1

\* a player who held two second chance cards has just been saved: both are
\* in the discard pile with the duplicate
C12_Witness ==
  /\ phase = "playing"
  /\ lastAction \in {<<"saved", name, MaxNumberValue>> : name \in Names}
  /\ SecondChanceCount(discard) = 2
  /\ \E i \in 1..Len(players) :
       /\ ~players[i].hasSecondChance
       /\ Len(players[i].cards) >= 1
       /\ SecondChanceCount(players[i].cards) = 0

\* player i gets the 7th distinct number value in this step, the draw pile
\* holding enough cards for the step not to shuffle
Flip7Step(i) ==
  /\ Len(deck) >= FlipThreeDraws
  /\ roundNumber' = roundNumber
  /\ Len(players') = Len(players)
  /\ getUniqueNumberCount(players[i]) < 7
  /\ getUniqueNumberCount(players'[i]) >= 7

\* C13: in the step in which a draw gives a player the 7th distinct number
\* value, that player is stayed, every other player who was neither busted
\* nor stayed is stayed with the same hand and the round score of that hand,
\* the scores of the round are added, the phase is "round_end" or
\* "game_over", and the card that made the Flip 7 is the last one taken from
\* the draw pile.
C13_Flip7EndsRound ==
  [][\A i \in 1..Len(players) :
       Flip7Step(i) =>
         /\ players'[i].stayed
         /\ \A j \in 1..Len(players) :
              /\ (j # i /\ Active(players[j])) =>
                   /\ players'[j].stayed
                   /\ players'[j].cards = players[j].cards
                   /\ players'[j].roundScore = calculateRoundScore(players[j])
              /\ players'[j].score =
                   IF players'[j].busted THEN players[j].score
                   ELSE players[j].score + calculateRoundScore(players'[j])
         /\ phase' \in {"round_end", "game_over"}
         /\ Len(deck') \in (Len(deck) - FlipThreeDraws)..(Len(deck) - 1)
         /\ deck' = SubSeq(deck, 1, Len(deck'))
         /\ players'[i].cards[Len(players'[i].cards)] = deck[Len(deck') + 1]]_vars

\* the current player holds six distinct numbers, the next card is a seventh
\* and the other player is still active: the hit ends the round
C13_Witness ==
  /\ phase = "playing"
  /\ Len(deck) >= FlipThreeDraws
  /\ Active(current)
  /\ getUniqueNumberCount(current) = 6
  /\ IsNumber(top)
  /\ ~hasNumberDuplicate(current, top)
  /\ \E j \in 1..Len(players) :
       /\ j # currentPlayerIndex + 1
       /\ Active(players[j])
       /\ Len(players[j].cards) >= 1
       /\ \A r \in DrawRandoms :
            /\ handleHit(State, current.id, r).state.players[j].stayed
            /\ handleHit(State, current.id, r).state.phase \in {"round_end", "game_over"}

RECURSIVE SumOver(_)
SumOver(refs) ==
  IF refs = {} THEN 0
  ELSE LET k == CHOOSE x \in refs : TRUE
       IN Card(k).value + SumOver(refs \ {k})

\* the score the rules give to a set of cards
ExpectedScore(refs) ==
  LET numbers == {k \in refs : Card(k).type = "number"}
  IN (IF \E k \in refs : Card(k).type = "multiplier" THEN 2 * SumOver(numbers)
                                                     ELSE SumOver(numbers))
       + SumOver({k \in refs : Card(k).type = "modifier"})
       + (IF Cardinality({Card(k).value : k \in numbers}) >= 7 THEN 15 ELSE 0)

\* C14: calculateRoundScore of a hand is the sum of its number cards, doubled
\* when the hand holds the multiplier, plus the sum of its modifier cards,
\* plus 15 when the hand holds 7 or more distinct number values; the action
\* cards count 0, and neither the order of the cards nor any other field of
\* the player changes the result.
C14_RoundScoreFormula ==
  \A i \in 1..Len(players) :
    /\ calculateRoundScore(players[i]) = ExpectedScore(Range(players[i].cards))
    /\ calculateRoundScore(players[i])
         = calculateRoundScore([newPlayer(EmptyId, 1) EXCEPT
                                  !.cards = Reversed(players[i].cards)])

\* a hand with seven numbers (sum 27), the multiplier, the modifier +2 and a
\* second chance card has got 2 * 27 + 2 + 15 points
C14_Witness ==
  \E i \in 1..Len(players) :
    /\ Cardinality(NumberValues(players[i].cards)) = 7
    /\ SumValues(SelectSeq(players[i].cards, IsNumber)) = 27
    /\ Range(players[i].cards) \cap {88, 94} = {88, 94}
    /\ SecondChanceCount(players[i].cards) = 1
    /\ Len(players[i].cards) = 10
    /\ players[i].roundScore = 71
    /\ calculateRoundScore(players[i]) = 71

\* C15: in every reachable state the stored round score of every player who
\* is not busted is calculateRoundScore of the hand the player holds.
C15_RoundScoreCurrent ==
  \A i \in 1..Len(players) :
    ~players[i].busted => players[i].roundScore = calculateRoundScore(players[i])

\* a player still in the round holds a 12 and the modifier +4, stored as 16
C15_Witness ==
  /\ phase = "playing"
  /\ \E i \in 1..Len(players) :
       /\ Active(players[i])
       /\ \E a, b \in 1..Len(players[i].cards) :
            /\ IsNumber(players[i].cards[a])
            /\ IsModifier(players[i].cards[b])
       /\ players[i].roundScore = MaxNumberValue + 4

\* the index of the first player after index from, in cyclic order and from
\* itself last, who is neither busted nor stayed
FirstActiveAfter(ps, from) ==
  LET at(d) == ((from + d) % Len(ps)) + 1
      d0 == CHOOSE d \in 1..Len(ps) :
              /\ Active(ps[at(d)])
              /\ \A e \in 1..(d - 1) : ~Active(ps[at(e)])
  IN at(d0) - 1

\* the turn in state T, reached from the present state by a hit or a stay
TurnPassed(T) ==
  IF \E j \in 1..Len(T.players) : Active(T.players[j])
    THEN /\ T.phase = "playing"
         /\ T.currentPlayerIndex = FirstActiveAfter(T.players, currentPlayerIndex)
    ELSE T.phase \in {"round_end", "game_over"}

MovedToDiscard(T) == SubSeq(T.discard, Len(discard) + 1, Len(T.discard))

\* state T is the present state with a round started
RoundStarted(T) ==
  /\ T.roundNumber = roundNumber + 1
  /\ T.phase = "playing"
  /\ T.currentPlayerIndex = 0
  /\ Len(T.players) = Len(players)
  /\ \A i \in 1..Len(players) :
       /\ T.players[i].cards = <<>>
       /\ T.players[i].roundScore = 0
       /\ ~T.players[i].busted
       /\ ~T.players[i].stayed
       /\ ~T.players[i].hasSecondChance
       /\ T.players[i].score = players[i].score
       /\ T.players[i].id = players[i].id
       /\ T.players[i].name = players[i].name
  /\ IF T.roundNumber = 1
       THEN /\ Len(T.deck) = DeckSize
            /\ Range(T.deck) = 0..(DeckSize - 1)
            /\ T.discard = <<>>
       ELSE /\ T.deck = deck
            /\ Len(T.discard) = TotalCards - Len(deck)
            /\ SubSeq(T.discard, 1, Len(discard)) = discard
            /\ \A i \in 1..Len(players) : \A c \in 1..Len(players[i].cards) :
                 Len(SelectSeq(MovedToDiscard(T), LAMBDA k : k = players[i].cards[c])) = 1

\* C17: a start_game or new_round that starts a round adds 1 to roundNumber,
\* sets the phase to "playing" and the current player index to 0, moves the
\* cards of every hand to the discard pile, clears every hand, round score
\* and flag and keeps the cumulative scores; only a round numbered 1 gets a
\* freshly shuffled deck of 95 cards and an empty discard pile.
C17_RoundStart ==
  \A conn \in Conns :
    conn = hostId =>
      /\ Len(players) >= 2 =>
           \A r \in StartRandoms : RoundStarted(handleStartGame(State, conn, r).state)
      /\ phase = "round_end" =>
           \A r \in StartRandoms : RoundStarted(handleNewRound(State, conn, r).state)

\* round 1 has ended with cards in both hands and in the discard pile, and
\* the host is there to send new_round
C17_Witness ==
  /\ phase = "round_end"
  /\ roundNumber = 1
  /\ hostId \in Conns
  /\ Len(discard) > 0
  /\ \A i \in 1..Len(players) : Len(players[i].cards) > 0
  /\ \A r \in StartRandoms :
       /\ handleNewRound(State, hostId, r).state.roundNumber = 2
       /\ handleNewRound(State, hostId, r).state.deck = deck
       /\ Len(handleNewRound(State, hostId, r).state.discard) > Len(discard)

\* state T is the present state restarted
Restarted(T) ==
  /\ T.phase = "lobby"
  /\ T.roundNumber = 0
  /\ T.winner = null
  /\ T.hostId = hostId
  /\ Len(T.players) = Len(players)
  /\ \A i \in 1..Len(players) :
       /\ T.players[i].id = players[i].id
       /\ T.players[i].name = players[i].name
       /\ T.players[i].connected = players[i].connected
       /\ T.players[i].score = 0
       /\ T.players[i].roundScore = 0
       /\ T.players[i].cards = <<>>
       /\ ~T.players[i].busted
       /\ ~T.players[i].stayed
       /\ ~T.players[i].hasSecondChance

\* C18: a restart sent by the host, in any phase, gives phase "lobby", round
\* number 0 and no winner, keeps the players with their order, names, ids and
\* connected flags and the host id, and leaves every player with score 0,
\* round score 0, an empty hand and the three flags false.
C18_Restart ==
  \A conn \in Conns :
    conn = hostId => Restarted(handleRestart(State, conn).state)

\* a round has ended with points scored and cards in hand, one player is
\* disconnected, and the host is there to send restart
C18_Witness ==
  /\ phase = "round_end"
  /\ hostId \in Conns
  /\ \E i \in 1..Len(players) :
       /\ players[i].score > 0
       /\ Len(players[i].cards) > 0
       /\ handleRestart(State, hostId).state.players[i].score = 0
  /\ \E i \in 1..Len(players) : ~players[i].connected
  /\ handleRestart(State, hostId).state.phase = "lobby"

\* what the handler sent is an error notification to connection conn alone
ErrorTo(out, conn) == out.sent.kind = "error" /\ out.sent.to = conn

\* C19: a start_game, new_round or restart from a connection that is not the
\* host is answered with an error notification to that connection only and
\* leaves the game state as it was.
C19_NonHostRejected ==
  \A conn \in Conns :
    (hostId # EmptyId /\ conn # hostId) =>
      /\ \A r \in StartRandoms :
           /\ ErrorTo(handleStartGame(State, conn, r), conn)
           /\ handleStartGame(State, conn, r).state = State
           /\ ErrorTo(handleNewRound(State, conn, r), conn)
           /\ handleNewRound(State, conn, r).state = State
      /\ ErrorTo(handleRestart(State, conn), conn)
      /\ handleRestart(State, conn).state = State

\* C20: the host who sends new_round while the phase is not "round_end", or
\* start_game while the phase is not "lobby", gets an error notification.
C20_HostOutOfPhaseError ==
  \A conn \in Conns :
    conn = hostId =>
      \A r \in StartRandoms :
        /\ phase # "round_end" => ErrorTo(handleNewRound(State, conn, r), conn)
        /\ phase # "lobby" => ErrorTo(handleStartGame(State, conn, r), conn)

\* C22: every draw made by a hit or a use_flip_three yields a card: the
\* player whose turn it is never draws while the draw pile and the discard
\* pile are both empty.
C22_DrawYieldsCard ==
  (phase = "playing" /\ Active(current)) =>
    \A r \in DrawRandoms : ~drawCard(State, r).undefined

\* the connections that send messages: those of the model and those the
\* players are bound to
Senders == (Conns \cup {players[i].id : i \in 1..Len(players)}) \ {EmptyId}

\* what the handlers leave, for every message connection conn can send
Handled(conn) ==
  {handleJoin(State, conn, name) : name \in Names}
    \cup {handleStartGame(State, conn, r) : r \in StartRandoms}
    \cup {handleNewRound(State, conn, r) : r \in StartRandoms}
    \cup {handleHit(State, conn, r) : r \in DrawRandoms}
    \cup {handleFlipThree(State, conn, r) : r \in DrawRandoms}
    \cup {handleStay(State, conn), handleFreeze(State, conn), handleRestart(State, conn),
          Out(State, Nothing)}

\* C21: a message that is rejected, with an error notification or silently,
\* leaves the whole game state as it was: a handler that ends without a
\* broadcast has changed nothing.
C21_RejectedLeavesState ==
  \A conn \in Senders : \A out \in Handled(conn) :
    out.sent.kind \in {"none", "error"} => out.state = State

\* the random numbers tried on a draw
DrawTapes == Reshuffles \cup CrowdRandoms

Copies(seq, c) == Cardinality({i \in 1..Len(seq) : seq[i] = c})

\* d is a correct draw from the present piles
DrawnFromPiles(d) ==
  IF Len(deck) > 0
    THEN /\ ~d.undefined
         /\ d.card = deck[Len(deck)]
         /\ d.state.deck = SubSeq(deck, 1, Len(deck) - 1)
         /\ d.state.discard = discard
    ELSE Len(discard) > 0 =>
           /\ ~d.undefined
           /\ d.card \in Range(discard)
           /\ d.state.discard = <<>>
           /\ Len(d.state.deck) = Len(discard) - 1
           /\ \A c \in Range(discard) :
                Copies(d.state.deck, c) + (IF c = d.card THEN 1 ELSE 0) = Copies(discard, c)

\* C23: a draw from an empty draw pile and a discard pile of n >= 1 cards
\* returns one of the discard cards, leaves the discard pile empty and the
\* draw pile with the other n - 1 of them; a draw from a draw pile that is
\* not empty removes and returns its last card and leaves the discard pile
\* alone.
C23_DrawCard == \A r \in DrawTapes : DrawnFromPiles(drawCard(State, r))

\* the draw pile has run out with some of the cards in the discard pile, and
\* the hit of the player whose turn it is draws from the shuffled discards
C23_Witness ==
  /\ phase = "playing"
  /\ Active(current)
  /\ Len(deck) = 0
  /\ Len(discard) > 1
  /\ Len(discard) < DeckSize
  /\ \A r \in DrawRandoms :
       /\ Len(handleHit(State, current.id, r).state.deck) = Len(discard) - 1
       /\ Len(handleHit(State, current.id, r).state.discard) \in {0, 2, 3, 4}

\* the names a join can carry: those of the model and one that nobody uses
JoinNames == Names \cup {NumNames + 1}

NameUsed(name) == \E i \in 1..Len(players) : players[i].name = name

\* out is what the claim says of a join of connection conn as name
JoinAdmitted(out, conn, name) ==
  IF phase = "lobby"
    THEN IF NameUsed(name)
           THEN ErrorTo(out, conn) /\ out.state = State
           ELSE /\ Len(out.state.players) = Len(players) + 1
                /\ SubSeq(out.state.players, 1, Len(players)) = players
                /\ out.state.players[Len(players) + 1] =
                     [id |-> conn, name |-> name, cards |-> <<>>, score |-> 0,
                      roundScore |-> 0, busted |-> FALSE, stayed |-> FALSE,
                      hasSecondChance |-> FALSE, connected |-> TRUE]
    ELSE ~NameUsed(name) => (ErrorTo(out, conn) /\ out.state = State)

\* C24: in the lobby a join with an unused name appends one new player with
\* score 0, an empty hand, the flags false and connected, and a join with a
\* name in use is answered with an error and adds nothing; in the other
\* phases a join with a name of no player is answered with an error and adds
\* nothing.  The names of the players are pairwise distinct.
C24_JoinAdmission ==
  /\ \A conn \in Conns : \A name \in JoinNames :
       JoinAdmitted(handleJoin(State, conn, name), conn, name)
  /\ \A i, j \in 1..Len(players) : players[i].name = players[j].name => i = j

\* one player is in the lobby: a join under the other name is admitted, a
\* join under the same name is not
C24_Witness ==
  /\ phase = "lobby"
  /\ Len(players) = 1
  /\ \E conn \in Conns, name \in Names :
       /\ ~NameUsed(name)
       /\ Len(handleJoin(State, conn, name).state.players) = 2
       /\ ErrorTo(handleJoin(State, conn, players[1].name), conn)

\* state T is the present state but for the players
SameBesidePlayers(T) ==
  /\ T.phase = phase
  /\ T.currentPlayerIndex = currentPlayerIndex
  /\ T.deck = deck
  /\ T.discard = discard
  /\ T.roundNumber = roundNumber
  /\ T.hostId = hostId
  /\ T.lastAction = lastAction
  /\ T.winner = winner
  /\ Len(T.players) = Len(players)

\* player q is player p but for the id and the connected flag
SameSeat(q, p) ==
  /\ q.name = p.name
  /\ q.cards = p.cards
  /\ q.score = p.score
  /\ q.roundScore = p.roundScore
  /\ q.busted = p.busted
  /\ q.stayed = p.stayed
  /\ q.hasSecondChance = p.hasSecondChance

\* state T is the present state with player i bound to connection conn
Reconnected(T, i, conn) ==
  /\ SameBesidePlayers(T)
  /\ \A j \in 1..Len(players) :
       IF j = i THEN /\ SameSeat(T.players[j], players[j])
                     /\ T.players[j].id = conn
                     /\ T.players[j].connected
                ELSE T.players[j] = players[j]

\* C25: a join in phase playing, round_end or game_over under the name of a
\* player changes that player's id to the sender's and the connected flag to
\* true, and nothing else: the player's cards, scores, flags and seat, the
\* other players, the piles, the phase, the turn and the round number stay.
C25_Reconnection ==
  phase # "lobby" =>
    \A conn \in Conns : \A i \in 1..Len(players) :
      Reconnected(handleJoin(State, conn, players[i].name).state, i, conn)

\* a player with cards and points in a round has lost the connection, and
\* another connection joins under that name
C25_Witness ==
  /\ phase = "playing"
  /\ \E i \in 1..Len(players) : \E conn \in Conns :
       /\ ~players[i].connected
       /\ players[i].id # conn
       /\ Len(players[i].cards) > 0
       /\ players[i].roundScore > 0
       /\ handleJoin(State, conn, players[i].name).state.players[i].id = conn
       /\ handleJoin(State, conn, players[i].name).state.players[i].connected

\* in state T at most the connected flag of one player of connection conn
\* has changed, to false
OnlyDisconnected(T, conn) ==
  /\ SameBesidePlayers(T)
  /\ \A j \in 1..Len(players) :
       \/ T.players[j] = players[j]
       \/ /\ players[j].id = conn
          /\ T.players[j] = [players[j] EXCEPT !.connected = FALSE]
  /\ (\E j \in 1..Len(players) : players[j].id = conn) =>
       \E j \in 1..Len(players) : players[j].id = conn /\ ~T.players[j].connected

\* a step keeps the names of the players in their order, or appends one name
\* in the lobby
NamesOnlyAppended ==
  /\ Len(players') >= Len(players)
  /\ \A i \in 1..Len(players) : players'[i].name = players[i].name
  /\ Len(players') > Len(players) =>
       (phase = "lobby" /\ Len(players') = Len(players) + 1)

\* C26: no step removes or reorders players, the list of names growing only
\* by one name appended in the lobby; and the close of a connection sets the
\* connected flag of its player to false and changes nothing else, the turn
\* order, the current player index, the hands and the scores included.
C26_PlayersKept ==
  /\ [](\A conn \in Conns : OnlyDisconnected(onClose(State, conn).state, conn))
  /\ [][NamesOnlyAppended]_vars

\* the player whose turn it is holds cards and has lost the connection
C26_Witness ==
  /\ phase = "playing"
  /\ Len(players) = 2
  /\ ~current.connected
  /\ Len(current.cards) > 0
  /\ Active(current)

\* C27: the winner is set only while the phase is "game_over"; it is null in
\* the lobby, while playing and at the end of a round.
C27_WinnerOnlyAtGameOver == winner # null => phase = "game_over"

\* C28: a handled message or a close that changes the game state is followed
\* in the same step by one broadcast of the state, and an error notification
\* goes to the connection whose message was rejected.
C28_ChangeIsBroadcast ==
  \A conn \in Senders : \A out \in Handled(conn) \cup {onClose(State, conn)} :
    /\ out.state # State => out.sent = Broadcast
    /\ out.sent.kind = "error" => out.sent.to = conn

\* the cards of createDeck of type t and value v
CardsOf(t, v) == {k \in 1..Len(createDeck) : createDeck[k].type = t /\ createDeck[k].value = v}

CardsOfType(t) == {k \in 1..Len(createDeck) : createDeck[k].type = t}

CreateDeckIds == {createDeck[k].id : k \in 1..Len(createDeck)}

\* what the claim says of the cards createDeck returns
DeckAsClaimed ==
  /\ Len(createDeck) = 95
  /\ Cardinality(CreateDeckIds) = Len(createDeck)
  /\ Cardinality(CardsOfType("number")) = 79
  /\ Cardinality(CardsOf("number", 0)) = 1
  /\ \A n \in 1..12 : Cardinality(CardsOf("number", n)) = n
  /\ \A t \in {"freeze", "flip_three", "second_chance"} : Cardinality(CardsOfType(t)) = 3
  /\ Cardinality(CardsOfType("modifier")) = 6
  /\ \A v \in {2, 4, 6, 10} : Cardinality(CardsOf("modifier", v)) = 1
  /\ Cardinality(CardsOf("modifier", 8)) = 2
  /\ Cardinality(CardsOfType("multiplier")) = 1
  /\ Cardinality(CardsOf("multiplier", 2)) = 1

\* C29: createDeck returns 95 cards with pairwise distinct ids: 79 number
\* cards, one 0 and N cards of each value N from 1 to 12, 3 freeze, 3
\* flip_three and 3 second_chance cards, 6 modifiers of values 2, 4, 6, 8, 8
\* and 10, and 1 multiplier of value 2.  They are the cards the piles hold.
C29_CreateDeck ==
  /\ Range(deck) \cup Range(discard) \subseteq CreateDeckIds
  /\ DeckAsClaimed

\* round 1 has just been started with the deck createDeck returned
C29_Witness ==
  /\ phase = "playing"
  /\ roundNumber = 1
  /\ Len(deck) = 95
  /\ Range(deck) = CreateDeckIds
  /\ \E a, b \in 1..Len(deck) : Card(deck[a]).type = "modifier" /\ Card(deck[b]).type = "freeze"

\* out holds the elements of seq, each as often as seq does
Permutation(out, seq) ==
  /\ Len(out) = Len(seq)
  /\ \A c \in Range(seq) \cup Range(out) : Copies(out, c) = Copies(seq, c)

Played(conn) ==
  {handleHit(State, conn, r) : r \in DrawRandoms}
    \cup {handleFlipThree(State, conn, r) : r \in DrawRandoms}
    \cup {handleStay(State, conn), handleFreeze(State, conn)}

\* player q has the hand, the busted and second chance flags and the round
\* score of player p
SameRound(q, p) ==
  /\ q.cards = p.cards
  /\ q.busted = p.busted
  /\ q.hasSecondChance = p.hasSecondChance
  /\ q.roundScore = p.roundScore

\* in state T the players not bound to connection conn are as they are now,
\* and at most one player is not
OthersUntouched(T, conn) ==
  /\ Len(T.players) = Len(players)
  /\ \A j \in 1..Len(players) :
       players[j].id # conn => SameRound(T.players[j], players[j])
  /\ Cardinality({j \in 1..Len(players) : ~SameRound(T.players[j], players[j])}) <= 1

\* a step within a round leaves the hand and the round score of a player who
\* has stayed
StayedKept ==
  (roundNumber' = roundNumber /\ Len(players') = Len(players)) =>
    \A i \in 1..Len(players) :
      players[i].stayed =>
        /\ players'[i].cards = players[i].cards
        /\ players'[i].roundScore = players[i].roundScore

\* C31: a hit, stay, use_flip_three or use_freeze of one player changes no
\* other player's hand, busted flag, second chance flag or stored round
\* score; and the hand and the round score of a player who has stayed stay
\* as they are until the next round is started or the game is restarted.
C31_OthersUntouched ==
  /\ [](\A conn \in Senders : \A out \in Played(conn) : OthersUntouched(out.state, conn))
  /\ [][StayedKept]_vars

\* one player has stayed on a hand worth points, and the other, still in the
\* round with a second chance in hand, has drawn a number since
C31_Witness ==
  /\ phase = "playing"
  /\ Len(players) = 2
  /\ Active(current)
  /\ current.hasSecondChance
  /\ lastAction \in {<<"drewNumber", current.name, MaxNumberValue>>}
  /\ players[2 - currentPlayerIndex].stayed
  /\ players[2 - currentPlayerIndex].roundScore > 0
  /\ Len(players[2 - currentPlayerIndex].cards) > 0

\* the pairs of places of hand cards that hold number cards of one value
NumberPairs(cards) ==
  {pair \in (1..Len(cards)) \X (1..Len(cards)) :
     /\ pair[1] < pair[2]
     /\ IsNumber(cards[pair[1]])
     /\ IsNumber(cards[pair[2]])
     /\ Card(cards[pair[1]]).value = Card(cards[pair[2]]).value}

\* C32: a hand holds two number cards of one value exactly when its player
\* is busted, and then it holds one such pair, made by the last card of the
\* hand; the duplicate a second chance absorbed is not in the hand.
C32_PairIffBusted ==
  \A i \in 1..Len(players) :
    /\ players[i].busted <=> NumberPairs(players[i].cards) # {}
    /\ players[i].busted =>
         /\ Cardinality(NumberPairs(players[i].cards)) = 1
         /\ \A pair \in NumberPairs(players[i].cards) : pair[2] = Len(players[i].cards)

\* one player is busted on a pair of 12s behind another card, and the other
\* player has been saved from a duplicate 12 by a second chance
C32_Witness ==
  /\ \E i \in 1..Len(players) :
       /\ players[i].busted
       /\ Len(players[i].cards) >= 3
       /\ NumberPairs(players[i].cards) # {}
  /\ \E j \in 1..Len(players) :
       /\ ~players[j].busted
       /\ players[j].stayed
       /\ NumberValues(players[j].cards) = {MaxNumberValue}
       /\ SecondChanceCount(discard) >= 1

\* the seat findIndex gives to connection conn, from 1, or 0
SeatOf(conn) == findIndexById(players, conn) + 1

\* state T is what a use_flip_three of the player of seat i may leave.  The
\* cards drawn are counted on the draw pile, which tells their number when
\* the discard pile is not shuffled into it on the way.
FlippedThree(T, i) ==
  /\ T.currentPlayerIndex = currentPlayerIndex
  /\ (Len(deck) >= FlipThreeDraws \/ Len(discard) = 0) =>
       /\ Len(deck) - Len(T.deck) \in 1..3
       /\ Len(deck) - Len(T.deck) < 3 =>
            (T.players[i].busted \/ getUniqueNumberCount(T.players[i]) >= 7)
  /\ T.players[i].stayed => getUniqueNumberCount(T.players[i]) >= 7
  /\ (\A j \in 1..Len(T.players) : ~Active(T.players[j])) =>
       T.phase \in {"round_end", "game_over"}

\* C33: a use_flip_three from a player neither busted nor stayed, on the
\* player's turn or not, draws 3 cards for that player, fewer only when the
\* player busts or makes a Flip 7 before; a second chance save on the way
\* neither marks the player stayed nor stops the draws; the current player
\* index stays, and the round is ended when every player is busted or stayed
\* afterwards.
C33_FlipThree ==
  phase = "playing" =>
    \A conn \in Senders :
      (SeatOf(conn) > 0 /\ Active(players[SeatOf(conn)])) =>
        \A r \in DrawRandoms :
          FlippedThree(handleFlipThree(State, conn, r).state, SeatOf(conn))

\* state T is what a use_freeze of the player of seat i leaves
Frozen(T, i) ==
  /\ T.players[i] = [players[i] EXCEPT !.stayed = TRUE,
                                       !.roundScore = ExpectedScore(Range(players[i].cards)),
                                       !.score = T.players[i].score]
  /\ T.deck = deck
  /\ T.discard = discard
  /\ \A j \in 1..Len(players) : j # i => T.players[j].cards = players[j].cards
  /\ IF i = currentPlayerIndex + 1
       THEN TurnPassed(T)
       ELSE /\ T.currentPlayerIndex = currentPlayerIndex
            /\ T.phase \in {"round_end", "game_over"}
                 <=> \A j \in 1..Len(T.players) : ~Active(T.players[j])

\* C34: a use_freeze from a player neither busted nor stayed marks the
\* player stayed with the round score of the hand and draws no card; when it
\* is that player's turn the turn passes to the next active player or the
\* round ends, and otherwise the current player index stays and the round
\* ends only when every player is busted or stayed.
C34_Freeze ==
  phase = "playing" =>
    \A conn \in Senders :
      (SeatOf(conn) > 0 /\ Active(players[SeatOf(conn)])) =>
        Frozen(handleFreeze(State, conn).state, SeatOf(conn))

-----------------------------------------------------------------------------
\* the number of cards held by the first n players
RECURSIVE CardsInHands(_)
CardsInHands(n) ==
  IF n = 0 THEN 0 ELSE Len(players[n].cards) + CardsInHands(n - 1)

\* the ids of the cards in the deck, the discard pile and the hands
IdsInPlay ==
  Range(deck) \cup Range(discard)
    \cup UNION {Range(players[i].cards) : i \in 1..Len(players)}

-----------------------------------------------------------------------------
(* The turn taker.  A third specification of the room begins where two     *)
(* players have joined and the host has started the game, and lets the     *)
(* connections play: hit, stay, use_flip_three, use_freeze, and new_round  *)
(* between the rounds.  The connection bound to the player whose turn it   *)
(* is never stops sending hit or stay: a hit or stay of that connection    *)
(* that changes the room is not put off for ever.                          *)

InitTurn ==
  \E r \in Randoms : StartsAs(handleStartGame(Joined(NumConns), 1, r).state)

\* a hit or a stay sent by the connection bound to the current-turn player
TurnPlay ==
  /\ phase = "playing"
  /\ \E conn \in Conns :
       /\ conn = players[currentPlayerIndex + 1].id
       /\ (Hit(conn) \/ Stay(conn))

NextTurn ==
  \E conn \in Conns :
    \/ Hit(conn)
    \/ Stay(conn)
    \/ FlipThree(conn)
    \/ Freeze(conn)
    \/ NewRound(conn)

SpecTurn == InitTurn /\ [][NextTurn]_vars /\ WF_vars(TurnPlay)

\* C36: from every state where a round is being played, if the connection
\* of the current-turn player keeps sending hit or stay, the round ends:
\* the phase leaves playing, whatever use_flip_three and use_freeze
\* messages arrive in between.
C36_RoundEnds == (phase = "playing") ~> (phase # "playing")

-----------------------------------------------------------------------------
\* the connections that may send join: those of Conns and one more, which
\* no player is bound to
JoinConns == Conns \cup {NumConns + 1}

\* in state S the host id is the id of a player, if there is a player
HostSeated(S) ==
  Len(S.players) > 0 => \E i \in 1..Len(S.players) : S.players[i].id = S.hostId

\* in state T, reached when connection conn sent join with the host's name,
\* the host id is the id of a player, conn can restart the game and, at the
\* end of a round, start the next one
HostRejoined(T, conn) ==
  /\ HostSeated(T)
  /\ handleRestart(T, conn).state.phase = "lobby"
  /\ T.phase = "round_end" =>
       \A r \in StartRandoms :
         handleNewRound(T, conn, r).state.roundNumber = T.roundNumber + 1

\* C37: whenever a player has joined, hostId is the id of some player; and
\* once the game has begun, a host who joins again by name under any
\* connection is still the host: new_round and restart sent by that
\* connection are carried out.
C37_HostIsPlayer ==
  /\ HostSeated(State)
  /\ phase # "lobby" =>
       \A i \in 1..Len(players) :
         players[i].id = hostId =>
           \A conn \in JoinConns :
             HostRejoined(handleJoin(State, conn, players[i].name).state, conn)

-----------------------------------------------------------------------------
\* C38: the ids of the players are pairwise distinct in every state the
\* room reaches: no two seats are bound to one connection, whatever joins
\* that connection has sent.
C38_IdsDistinct ==
  \A i, j \in 1..Len(players) : players[i].id = players[j].id => i = j

-----------------------------------------------------------------------------
\* a step leaves the cumulative score of player i, or ends the round and
\* does not lower it, or restarts the game and makes it 0
ScoreStep(i) ==
  \/ players'[i].score = players[i].score
  \/ /\ phase = "playing"
     /\ phase' \in {"round_end", "game_over"}
     /\ players'[i].score >= players[i].score
  \/ /\ phase' = "lobby"
     /\ lastAction' = <<"restarted">>
     /\ players'[i].score = 0

\* C39: the cumulative score of a player changes only in a step that ends
\* the round, where it does not decrease, or in a restart, where it becomes
\* 0; a join, a reconnection, start_game, new_round, a close, and a hit,
\* stay, use_flip_three or use_freeze that does not end the round leave
\* every score as it is.
C39_ScoreSteps ==
  [][/\ Len(players') >= Len(players)
     /\ \A i \in 1..Len(players) : ScoreStep(i)]_vars

\* a round has ended with points for one player and none for the other, and
\* the next round is under way
C39_Witness ==
  /\ phase = "playing"
  /\ roundNumber > 1
  /\ \E i, j \in 1..Len(players) : players[i].score > 0 /\ players[j].score = 0

-----------------------------------------------------------------------------
\* C40: no player is both busted and stayed; while a round is being played
\* every hand holds at most six distinct number values, and a hand of seven
\* is seen only once the round has ended; no hand ever holds more than
\* seven.
C40_HandBounds ==
  \A i \in 1..Len(players) :
    /\ ~(players[i].busted /\ players[i].stayed)
    /\ getUniqueNumberCount(players[i]) <= Flip7Count
    /\ phase = "playing" => getUniqueNumberCount(players[i]) < Flip7Count

\* the round has ended on a hand of seven distinct number values
C40_Witness ==
  /\ phase \in {"round_end", "game_over"}
  /\ \E i \in 1..Len(players) :
       /\ getUniqueNumberCount(players[i]) = Flip7Count
       /\ players[i].stayed
       /\ ~players[i].busted

====
